---- MODULE Spec2Model ----
(***************************************************************************)
(* Cosmoglobe sky components: construction-time validation of the diffuse  *)
(* and point-source component families (sky/base_components.py) and the    *)
(* stateful dipole operations of the CMB component (sky/components.py),    *)
(* followed by the frequency scalings of the AME, Synchrotron, Dust and    *)
(* Radio components and by the chain contexts (sky/_chain_context.py,      *)
(* h5/context.py), each under a specification of its own.                  *)
(*                                                                         *)
(* A quantity is described by what the validators read of it: whether it   *)
(* is an astropy Quantity, its shape (a sequence of dimensions) and its    *)
(* unit.  The CMB amplitude additionally carries its values.               *)
(***************************************************************************)
EXTENDS Integers, Sequences, FiniteSets, TLC

VARIABLES
    kind,                 \* class being constructed
    in_amp,               \* constructor argument amp (the caller's array)
    in_freq_ref,          \* constructor argument freq_ref
    in_params,            \* constructor keyword arguments, in dict order
    catalog,              \* self.catalog.shape[1], NoCatalog without the attribute
    amp,                  \* self.amp                 (meaningful once in attrs)
    freq_ref,             \* self.freq_ref            (meaningful once in attrs)
    spectral_parameters,  \* self.spectral_parameters (meaningful once in attrs)
    pc,                   \* position inside __init__ / the component's life
    err,                  \* exception raised out of __init__, or "none"
    validated,            \* validators that have returned normally
    attrs,                \* names of the attributes set on self
    returned,             \* __init__ has returned: the caller holds the object
    dipole,               \* self.dipole of a CMB     (meaningful once in attrs)
    op,                   \* last CMB method called
    gal_cut,              \* gal_cut argument of the last CMB call
    ret,                  \* value returned by the last get_dipole
    removed,              \* what the last remove_dipole took off amp[0]
    ncalls,               \* number of CMB method calls made
    fn,                   \* function applied to fn_args, "none" before the call
    fn_args,              \* arguments of a frequency-scaling or chain-context call
    fn_result             \* what that call returned or raised

vars == <<kind, in_amp, in_freq_ref, in_params, catalog, amp, freq_ref,
          spectral_parameters, pc, err, validated, attrs, returned,
          dipole, op, gal_cut, ret, removed, ncalls, fn, fn_args, fn_result>>

ctorVars == <<kind, in_amp, in_freq_ref, in_params, catalog, pc, err,
              validated, returned>>
cmbVars == <<dipole, op, gal_cut, ret, removed, ncalls>>
fnVars == <<fn, fn_args, fn_result>>

----------------------------------------------------------------------------
(* Bounds of the model *)

MaxParams == 2      \* spectral parameters passed to one constructor
MaxNside == 3       \* pixel counts 12*k^2 and 12*k^2+1 for k in 0..MaxNside

MaxCalls == 3       \* get_dipole / remove_dipole calls made on one CMB
MaxAmp == 2         \* CMB intensity values are drawn from 0..MaxAmp

(* Marker values *)
NoCatalog == -1     \* the class defines no catalog attribute
NoValue == <<>>
\* an argument that is not an astropy Quantity and has no shape (a number, a
\* list), and Python's None
NotAQuantity == [isQuantity |-> FALSE, shape |-> <<>>, unit |-> "none"]
None == [isQuantity |-> FALSE, shape |-> <<>>, unit |-> "None"]

----------------------------------------------------------------------------
(* Units.  A unit is known by its physical type; conversion succeeds when  *)
(* the physical types agree or an equivalency links them.                  *)

PhysicalType(u) ==
    CASE u = "GHz"       -> "frequency"
      [] u = "MHz"       -> "frequency"
      [] u = "Hz"        -> "frequency"
      [] u = "m"         -> "length"
      [] u = "uK"        -> "temperature"
      [] u = "K"         -> "temperature"
      [] u = "Jy/sr"     -> "surface brightness"
      [] u = "mJy/sr"    -> "surface brightness"
      [] u = "mJy"       -> "spectral flux density"
      [] u = "uK/sr"     -> "temperature per solid angle"
      [] u = "Jy/sr2"    -> "surface brightness per solid angle"
      [] u = "uK km/s"   -> "temperature times speed"
      [] u = "Jy/sr km/s" -> "surface brightness times speed"
      [] u = "uK s/km"   -> "temperature per speed"

DEFAULT_FREQ_UNIT == "GHz"
DEFAULT_OUTPUT_UNIT == "uK"

\* astropy.units.spectral(): frequency <-> wavelength
spectral == {"frequency", "length"}
\* astropy.units.brightness_temperature(freq): surface brightness <-> temperature
brightness_temperature == {"surface brightness", "temperature"}

\* Quantity.to(target, equivalencies): TRUE when no UnitConversionError
Convertible(u, target, equivalencies) ==
    \/ PhysicalType(u) = PhysicalType(target)
    \/ /\ PhysicalType(u) \in equivalencies
       /\ PhysicalType(target) \in equivalencies

\* amp / Unit("sr")
PerSr(u) ==
    CASE u = "uK"    -> "uK/sr"
      [] u = "Jy/sr" -> "Jy/sr2"
      [] u = "mJy"   -> "mJy/sr"

\* amp / Unit("km/s")
PerKmS(u) ==
    CASE u = "uK km/s"    -> "uK"
      [] u = "Jy/sr km/s" -> "Jy/sr"
      [] u = "uK"         -> "uK s/km"

\* the shape numpy gives the result of an elementwise operation on arrays of
\* shapes s and t: the shapes are aligned on their last axes and an axis of
\* length 1 is stretched, any other disagreement being a ValueError
RECURSIVE Broadcastable(_, _)
Broadcastable(s, t) ==
    \/ s = <<>> \/ t = <<>>
    \/ /\ (s[Len(s)] = t[Len(t)] \/ s[Len(s)] = 1 \/ t[Len(t)] = 1)
       /\ Broadcastable(SubSeq(s, 1, Len(s) - 1), SubSeq(t, 1, Len(t) - 1))

\* q.to(DEFAULT_OUTPUT_UNIT, equivalencies=brightness_temperature(freq_ref))
\* inside the try of a _validate_amp, for q of the given unit and shape.
\* brightness_temperature first converts freq_ref to GHz under spectral();
\* that failing, or the unit of q not being convertible, is the
\* UnitConversionError the validator turns into UnitsError.  A temperature
\* is converted directly; a surface brightness is divided by a factor of
\* the shape of freq_ref, which numpy refuses with a ValueError when the two
\* shapes do not broadcast.
to_output_unit(unit, shape, self_freq_ref) ==
    IF ~Convertible(self_freq_ref.unit, "GHz", spectral) THEN "UnitsError"
    ELSE IF ~Convertible(unit, DEFAULT_OUTPUT_UNIT, brightness_temperature)
         THEN "UnitsError"
    ELSE IF PhysicalType(unit) # PhysicalType(DEFAULT_OUTPUT_UNIT)
            /\ ~Broadcastable(shape, self_freq_ref.shape)
         THEN "ValueError"
    ELSE "ok"

----------------------------------------------------------------------------
(* healpy *)

RECURSIVE IsPowerOfTwo(_)
IsPowerOfTwo(k) ==
    IF k <= 1 THEN k = 1 ELSE k % 2 = 0 /\ IsPowerOfTwo(k \div 2)

\* variant: only nside a power of two is accepted
isnpixok_PowerOfTwo(npix) ==
    \E nside \in 0..npix : 12 * nside * nside = npix /\ IsPowerOfTwo(nside)

\* healpy.isnpixok: sqrt(npix/12) is an integer
isnpixok(npix) == \E nside \in 0..npix : 12 * nside * nside = npix

\* healpy.get_nside(m) raises TypeError (through maptype) for a scalar, an
\* empty sequence, or a bad pixel count; the pixel count is len(m[0]) for a
\* sequence of maps and len(m) for a single map.
get_nside_raises(shape) ==
    IF Len(shape) = 0 THEN TRUE
    ELSE IF shape[1] = 0 THEN TRUE
    ELSE IF Len(shape) = 1 THEN ~isnpixok(shape[1])
    ELSE ~isnpixok(shape[2])

----------------------------------------------------------------------------
(* Validators of sky/base_components.py.  Each returns "ok" or the name of *)
(* the exception class it raises.                                          *)

\* variant: the conversion is tried without the spectral equivalency
validate_freq_ref_NoSpectral(f) ==
    IF ~f.isQuantity THEN "TypeError"
    ELSE IF f.shape \notin {<<1, 1>>, <<3, 1>>} THEN "ValueError"
    ELSE IF ~Convertible(f.unit, DEFAULT_FREQ_UNIT, {}) THEN "UnitsError"
    ELSE "ok"

\* SkyComponent._validate_freq_ref
validate_freq_ref(f) ==
    IF ~f.isQuantity THEN "TypeError"
    ELSE IF f.shape \notin {<<1, 1>>, <<3, 1>>} THEN "ValueError"
    ELSE IF ~Convertible(f.unit, DEFAULT_FREQ_UNIT, spectral) THEN "UnitsError"
    ELSE "ok"

\* variant: the leading dimension is not compared with freq_ref's
Diffuse_validate_amp_NoLeadingCheck(a, self_freq_ref) ==
    IF ~a.isQuantity THEN "TypeError"
    ELSE IF get_nside_raises(a.shape) THEN "NsideError"
    ELSE IF self_freq_ref = None THEN "ok"
    ELSE IF ~self_freq_ref.isQuantity THEN "AttributeError"
    ELSE to_output_unit(a.unit, a.shape, self_freq_ref)

\* DiffuseComponent._validate_amp; self_freq_ref is self.freq_ref, and the
\* leading dimension and the unit are only checked when it is not None; any
\* other value without a shape makes self.freq_ref.shape an AttributeError
Diffuse_validate_amp(a, self_freq_ref) ==
    IF ~a.isQuantity THEN "TypeError"
    ELSE IF get_nside_raises(a.shape) THEN "NsideError"
    ELSE IF self_freq_ref = None THEN "ok"
    ELSE IF ~self_freq_ref.isQuantity THEN "AttributeError"
    ELSE IF a.shape[1] # self_freq_ref.shape[1] THEN "ValueError"
    ELSE to_output_unit(a.unit, a.shape, self_freq_ref)

\* variant: the pixel count is checked for scalar parameters too
Diffuse_validate_parameter_AlwaysNside(parameter, self_amp) ==
    IF ~parameter.isQuantity THEN "TypeError"
    ELSE IF Len(parameter.shape) < 2 \/ parameter.shape[1] # self_amp.shape[1]
         THEN "ValueError"
    ELSE IF get_nside_raises(parameter.shape) THEN "NsideError"
    ELSE "ok"

\* body of the loop of DiffuseComponent._validate_spectral_parameters
Diffuse_validate_parameter(parameter, self_amp) ==
    IF ~parameter.isQuantity THEN "TypeError"
    ELSE IF Len(parameter.shape) < 2 \/ parameter.shape[1] # self_amp.shape[1]
         THEN "ValueError"
    ELSE IF parameter.shape[2] > 1 /\ get_nside_raises(parameter.shape)
         THEN "NsideError"
    ELSE "ok"

\* body of the loop of PointSourceComponent._validate_spectral_parameters
PointSource_validate_parameter(parameter, self_amp) ==
    IF ~parameter.isQuantity THEN "TypeError"
    ELSE IF Len(parameter.shape) < 2 \/ parameter.shape[1] # self_amp.shape[1]
         THEN "ValueError"
    ELSE "ok"

\* the loops: the first parameter (in dict order) that raises decides
FirstFailure(results) ==
    LET bad == {i \in 1..Len(results) : results[i] # "ok"}
    IN  IF bad = {} THEN "ok"
        ELSE results[CHOOSE i \in bad : \A j \in bad : i <= j]

Diffuse_validate_spectral_parameters(params, self_amp) ==
    FirstFailure([i \in 1..Len(params) |->
                     Diffuse_validate_parameter(params[i], self_amp)])

PointSource_validate_spectral_parameters(params, self_amp) ==
    FirstFailure([i \in 1..Len(params) |->
                     PointSource_validate_parameter(params[i], self_amp)])

\* PointSourceComponent._validate_amp
PointSource_validate_amp(a, self_freq_ref) ==
    IF ~a.isQuantity THEN "TypeError"
    ELSE IF a.shape[1] # self_freq_ref.shape[1] THEN "ValueError"
    ELSE to_output_unit(PerSr(a.unit), a.shape, self_freq_ref)

\* LineComponent._validate_amp
Line_validate_amp(value, self_freq_ref) ==
    IF ~value.isQuantity THEN "TypeError"
    ELSE IF value.shape[1] # self_freq_ref.shape[1] THEN "ValueError"
    ELSE to_output_unit(PerKmS(value.unit), value.shape, self_freq_ref)

\* variant: the catalog is compared with the Stokes dimension of amp
validate_catalog_Rows(cat, self_amp) ==
    IF cat = NoCatalog THEN "AttributeError"
    ELSE IF cat # self_amp.shape[1] THEN "ValueError"
    ELSE "ok"

\* PointSourceComponent._validate_catalog as called by __init__, which turns
\* a missing catalog attribute into AttributeError; cat is catalog.shape[1]
validate_catalog(cat, self_amp) ==
    IF cat = NoCatalog THEN "AttributeError"
    ELSE IF cat # self_amp.shape[2] THEN "ValueError"
    ELSE "ok"

----------------------------------------------------------------------------
(* Constructor inputs.  Amplitudes are two-dimensional, (S, N).            *)

NpixValues == {12 * k * k : k \in 0..MaxNside} \cup {12 * k * k + 1 : k \in 0..MaxNside}

StokesDims == {0, 1, 3}

FreqRefInputs ==
    {NotAQuantity, None} \cup
    [isQuantity : {TRUE}, shape : {<<1, 1>>, <<3, 1>>, <<1, 3>>},
     unit : {"GHz", "m", "K"}]

AmpInputs ==
    {NotAQuantity} \cup
    [isQuantity : {TRUE}, shape : {<<s, n>> : s \in StokesDims, n \in NpixValues},
     unit : {"uK", "Jy/sr", "mJy"}]

ParamInputs ==
    {NotAQuantity} \cup
    [isQuantity : {TRUE},
     shape : {<<1>>, <<1, 1>>, <<3, 1>>, <<1, 12>>, <<1, 13>>, <<1, 48>>,
              <<1, 108>>, <<1, 12, 2>>},
     unit : {"none"}]

ParamSeqs == UNION {[1..n -> ParamInputs] : n \in 0..MaxParams}

\* amplitudes handed to a line component: emission integrated over velocity
LineAmpInputs ==
    {NotAQuantity} \cup
    [isQuantity : {TRUE}, shape : {<<s, n>> : s \in StokesDims, n \in NpixValues},
     unit : {"uK km/s", "Jy/sr km/s", "uK"}]

\* Diffuse, PointSource and Line stand for a subclass that adds the abstract
\* get_freq_scaling, and nothing else, to DiffuseComponent,
\* PointSourceComponent (with a catalog attribute or without) and
\* LineComponent of sky/base_components.py.
DiffuseKinds == {"Diffuse"}
PointSourceKinds == {"PointSource"}
LineKinds == {"Line"}
\* AME and Radio of sky/components.py.  Their base classes, _DiffuseComponent
\* and _PointSourceComponent of cosmoglobe.sky.base, are not part of the
\* sources at hand; an AME is called with one spectral parameter (nu_p), a
\* Radio with one (specind).
OldKinds == {"AME", "Radio"}
Kinds == DiffuseKinds \cup PointSourceKinds \cup LineKinds \cup OldKinds
CatalogSizes == {12, 13}
\* the error kinds a constructor of cosmoglobe.sky.base may fail with
ErrorKinds == {"TypeError", "ShapeError", "ResolutionError", "UnitError"}

----------------------------------------------------------------------------
(* Construction, one action per call made by __init__ *)

Init ==
    /\ kind \in Kinds
    /\ in_amp \in (IF kind \in LineKinds THEN LineAmpInputs ELSE AmpInputs)
    /\ in_freq_ref \in FreqRefInputs
    /\ in_params \in (IF kind \in LineKinds THEN {p \in ParamSeqs : Len(p) <= 1}
                      ELSE IF kind \in OldKinds THEN {p \in ParamSeqs : Len(p) = 1}
                      ELSE ParamSeqs)
    /\ catalog \in (IF kind \in PointSourceKinds THEN CatalogSizes \cup {NoCatalog}
                                                ELSE {NoCatalog})
    /\ amp = NotAQuantity
    /\ freq_ref = NotAQuantity
    /\ spectral_parameters = <<>>
    /\ pc = "new"
    /\ err = "none"
    /\ validated = {}
    /\ attrs = {}
    /\ returned = FALSE
    /\ dipole = NoValue
    /\ op = "none"
    /\ gal_cut = 0
    /\ ret = NoValue
    /\ removed = NoValue
    /\ ncalls = 0
    /\ fn = "none"
    /\ fn_args = NoValue
    /\ fn_result = NoValue

\* the outcome of one validator: go on to `next`, or raise out of __init__
Step(name, result, next) ==
    IF result = "ok"
    THEN /\ pc' = next
         /\ validated' = validated \cup {name}
         /\ err' = err
    ELSE /\ pc' = "raised"
         /\ err' = result
         /\ validated' = validated

\* The constructor of the base class of an AME or a Radio, as the
\* specification describes it: the inputs are validated, then the fields are
\* stored.  Which inputs it rejects beyond those that are not quantities is
\* left open: it may fail on any input, with nothing stored.
sky_base_init_raises ==
    /\ pc = "new"
    /\ kind \in OldKinds
    /\ pc' = "raised"
    /\ err' \in ErrorKinds
    /\ UNCHANGED <<kind, in_amp, in_freq_ref, in_params, catalog, amp, freq_ref,
                   spectral_parameters, validated, attrs, returned>>
    /\ UNCHANGED <<cmbVars, fnVars>>

sky_base_init_returns ==
    /\ pc = "new"
    /\ kind \in OldKinds
    /\ in_amp.isQuantity /\ in_freq_ref.isQuantity
    /\ \A i \in 1..Len(in_params) : in_params[i].isQuantity
    /\ amp' = in_amp
    /\ freq_ref' = in_freq_ref
    /\ spectral_parameters' = in_params
    /\ attrs' = attrs \cup {"amp", "freq_ref", "spectral_parameters"}
    /\ validated' = {"freq_ref", "amp", "spectral_parameters"}
    /\ pc' = "setup"
    /\ UNCHANGED <<kind, in_amp, in_freq_ref, in_params, catalog, err, returned>>
    /\ UNCHANGED <<cmbVars, fnVars>>

\* SkyComponent.__init__, the three assignments
SkyComponent_init ==
    /\ pc = "new"
    /\ kind \notin OldKinds
    /\ amp' = in_amp
    /\ freq_ref' = in_freq_ref
    /\ spectral_parameters' = in_params
    /\ attrs' = attrs \cup {"amp", "freq_ref", "spectral_parameters"}
    /\ pc' = "validate_freq_ref"
    /\ UNCHANGED <<kind, in_amp, in_freq_ref, in_params, catalog, err,
                   validated, returned>>
    /\ UNCHANGED <<cmbVars, fnVars>>

\* SkyComponent.__init__, the call of _validate_freq_ref
SkyComponent_validate_freq_ref ==
    /\ pc = "validate_freq_ref"
    /\ Step("freq_ref", validate_freq_ref(in_freq_ref), "validate_amp")
    /\ UNCHANGED <<kind, in_amp, in_freq_ref, in_params, catalog, amp, freq_ref,
                   spectral_parameters, attrs, returned>>
    /\ UNCHANGED <<cmbVars, fnVars>>

\* DiffuseComponent.__init__, the call of _validate_amp
DiffuseComponent_validate_amp ==
    /\ pc = "validate_amp"
    /\ kind \in DiffuseKinds
    /\ Step("amp", Diffuse_validate_amp(in_amp, freq_ref), "validate_spectral_parameters")
    /\ UNCHANGED <<kind, in_amp, in_freq_ref, in_params, catalog, amp, freq_ref,
                   spectral_parameters, attrs, returned>>
    /\ UNCHANGED <<cmbVars, fnVars>>

\* DiffuseComponent.__init__, the call of _validate_spectral_parameters
DiffuseComponent_validate_spectral_parameters ==
    /\ pc = "validate_spectral_parameters"
    /\ kind \in DiffuseKinds
    /\ Step("spectral_parameters",
            Diffuse_validate_spectral_parameters(in_params, amp), "setup")
    /\ UNCHANGED <<kind, in_amp, in_freq_ref, in_params, catalog, amp, freq_ref,
                   spectral_parameters, attrs, returned>>
    /\ UNCHANGED <<cmbVars, fnVars>>

\* PointSourceComponent.__init__, the call of _validate_amp
PointSourceComponent_validate_amp ==
    /\ pc = "validate_amp"
    /\ kind \in PointSourceKinds
    /\ Step("amp", PointSource_validate_amp(in_amp, freq_ref), "validate_catalog")
    /\ UNCHANGED <<kind, in_amp, in_freq_ref, in_params, catalog, amp, freq_ref,
                   spectral_parameters, attrs, returned>>
    /\ UNCHANGED <<cmbVars, fnVars>>

\* PointSourceComponent.__init__, the call of _validate_catalog
PointSourceComponent_validate_catalog ==
    /\ pc = "validate_catalog"
    /\ kind \in PointSourceKinds
    /\ Step("catalog", validate_catalog(catalog, amp), "validate_spectral_parameters")
    /\ UNCHANGED <<kind, in_amp, in_freq_ref, in_params, catalog, amp, freq_ref,
                   spectral_parameters, attrs, returned>>
    /\ UNCHANGED <<cmbVars, fnVars>>

\* PointSourceComponent.__init__, the call of _validate_spectral_parameters
PointSourceComponent_validate_spectral_parameters ==
    /\ pc = "validate_spectral_parameters"
    /\ kind \in PointSourceKinds
    /\ Step("spectral_parameters",
            PointSource_validate_spectral_parameters(in_params, amp), "setup")
    /\ UNCHANGED <<kind, in_amp, in_freq_ref, in_params, catalog, amp, freq_ref,
                   spectral_parameters, attrs, returned>>
    /\ UNCHANGED <<cmbVars, fnVars>>

\* LineComponent.__init__, the call of _validate_amp
LineComponent_validate_amp ==
    /\ pc = "validate_amp"
    /\ kind \in LineKinds
    /\ Step("amp", Line_validate_amp(in_amp, freq_ref), "setup")
    /\ UNCHANGED <<kind, in_amp, in_freq_ref, in_params, catalog, amp, freq_ref,
                   spectral_parameters, attrs, returned>>
    /\ UNCHANGED <<cmbVars, fnVars>>

\* the last validator has passed: __init__ returns
init_return ==
    /\ pc = "setup"
    /\ kind \notin OldKinds
    /\ pc' = "ready"
    /\ returned' = TRUE
    /\ UNCHANGED <<kind, in_amp, in_freq_ref, in_params, catalog, amp, freq_ref,
                   spectral_parameters, err, validated, attrs>>
    /\ UNCHANGED <<cmbVars, fnVars>>

\* variant: the template is loaded before super().__init__ is called
AME_init_setup_BeforeSuper ==
    /\ pc = "new"
    /\ kind = "AME"
    /\ "spdust2" \notin attrs
    /\ attrs' = attrs \cup {"spdust2"}
    /\ UNCHANGED <<kind, in_amp, in_freq_ref, in_params, catalog, amp, freq_ref,
                   spectral_parameters, pc, err, validated, returned>>
    /\ UNCHANGED <<cmbVars, fnVars>>

\* AME.__init__ after super().__init__: load the spdust2 template
AME_init_setup ==
    /\ pc = "setup"
    /\ kind = "AME"
    /\ attrs' = attrs \cup {"spdust2"}
    /\ pc' = "ready"
    /\ returned' = TRUE
    /\ UNCHANGED <<kind, in_amp, in_freq_ref, in_params, catalog, amp, freq_ref,
                   spectral_parameters, err, validated>>
    /\ UNCHANGED <<cmbVars, fnVars>>

\* Radio.__init__ after super().__init__: self.amp becomes a new quantity of
\* the same values in mJy, and the coordinates of the catalog are read
Radio_init_setup ==
    /\ pc = "setup"
    /\ kind = "Radio"
    /\ amp' = [amp EXCEPT !.unit = "mJy"]
    /\ attrs' = attrs \cup {"angular_coords"}
    /\ pc' = "ready"
    /\ returned' = TRUE
    /\ UNCHANGED <<kind, in_amp, in_freq_ref, in_params, catalog, freq_ref,
                   spectral_parameters, err, validated>>
    /\ UNCHANGED <<cmbVars, fnVars>>

Next ==
    \/ sky_base_init_raises
    \/ sky_base_init_returns
    \/ SkyComponent_init
    \/ SkyComponent_validate_freq_ref
    \/ DiffuseComponent_validate_amp
    \/ DiffuseComponent_validate_spectral_parameters
    \/ PointSourceComponent_validate_amp
    \/ PointSourceComponent_validate_catalog
    \/ PointSourceComponent_validate_spectral_parameters
    \/ LineComponent_validate_amp
    \/ init_return
    \/ AME_init_setup
    \/ Radio_init_setup

Spec == Init /\ [][Next]_vars

----------------------------------------------------------------------------
(* CMB.get_dipole and CMB.remove_dipole (sky/components.py).               *)
(*                                                                         *)
(* The amplitude is an nside = 1 map that is constant on each of its three *)
(* rings of four pixels, so a row of amp.value is <<north, equator,        *)
(* south>>.  The rings lie at z = 2/3, 0, -2/3, that is at latitudes       *)
(* +41.81, 0 and -41.81 degrees.  Map values are exact fractions <<n, d>>  *)
(* with d > 0, in lowest terms; gal_cut is a whole number of degrees.      *)

Abs(x) == IF x < 0 THEN -x ELSE x

RECURSIVE GCD(_, _)
GCD(a, b) == IF b = 0 THEN a ELSE GCD(b, a % b)
\* the fraction n / d in lowest terms
Frac(n, d) == LET g == GCD(Abs(n), d) IN <<n \div g, d \div g>>
FracEq(a, b) == a[1] * b[2] = b[1] * a[2]
FracLt(a, b) == a[1] * b[2] < b[1] * a[2]
FracAdd(a, b) == Frac(a[1] * b[2] + b[1] * a[2], a[2] * b[2])
FracSub(a, b) == Frac(a[1] * b[2] - b[1] * a[2], a[2] * b[2])
FracMul(a, b) == Frac(a[1] * b[1], a[2] * b[2])
\* a / b for b > 0
FracDiv(a, b) == Frac(a[1] * b[2], a[2] * b[1])

Rings == 1..3
\* z of the pixel centres of each ring, and their latitude in 1/100 degree
RingZ == <<Frac(2, 3), Frac(0, 1), Frac(-2, 3)>>
RingLat == <<4181, 0, -4181>>
GalCuts == {0, 10, 30}

\* the sum of f over a set of rings
RECURSIVE SumOver(_, _)
SumOver(f, rings) ==
    IF rings = {} THEN Frac(0, 1)
    ELSE LET r == CHOOSE x \in rings : TRUE
         IN  FracAdd(f[r], SumOver(f, rings \ {r}))

\* healpy.fit_dipole: least-squares monopole and dipole over the pixels with
\* |z| >= sin(gal_cut) (every pixel when gal_cut is 0).  On a ring-constant
\* map the x and y components of the dipole vanish and the normal equations
\* split into monopole = mean of the kept pixels and
\* dipole_z = sum(m z) / sum(z z).  Some ring is kept for every gal_cut below
\* 41.81 degrees, which GalCuts observes.
fit_dipole(m, g) ==
    LET keep == {r \in Rings : g <= 0 \/ 100 * g <= Abs(RingLat[r])}
        mono == FracDiv(SumOver(m, keep), Frac(Cardinality(keep), 1))
        dz   == FracDiv(SumOver([r \in Rings |-> FracMul(m[r], RingZ[r])], keep),
                        SumOver([r \in Rings |-> FracMul(RingZ[r], RingZ[r])], keep))
    IN  [mono |-> mono, dz |-> dz]

\* healpy.remove_dipole(m, gal_cut=g): a copy of m with the fitted monopole
\* and dipole subtracted from every pixel, the masked ones included
hp_remove_dipole(m, g) ==
    LET fit == fit_dipole(m, g)
    IN  [r \in Rings |-> FracSub(FracSub(m[r], FracMul(fit.dz, RingZ[r])), fit.mono)]

Minus(a, b) == [r \in Rings |-> FracSub(a[r], b[r])]
Plus(a, b) == [r \in Rings |-> FracAdd(a[r], b[r])]

\* variant: the cached dipole is not consulted
CMB_get_dipole_Refit(self_amp, self_attrs, self_dipole, g) ==
    LET amp_without_dipole == hp_remove_dipole(self_amp.value[1], g)
    IN  Minus(self_amp.value[1], amp_without_dipole)

\* CMB.get_dipole: the value returned
CMB_get_dipole(self_amp, self_attrs, self_dipole, g) ==
    IF "dipole" \in self_attrs
    THEN self_dipole
    ELSE LET amp_without_dipole == hp_remove_dipole(self_amp.value[1], g)
         IN  Minus(self_amp.value[1], amp_without_dipole)

\* variant: self.amp[0] is overwritten before self.dipole is computed
CMB_remove_dipole_Swapped(self_amp, g) ==
    LET amp_without_dipole == hp_remove_dipole(self_amp.value[1], g)
    IN  [dipole |-> Minus(amp_without_dipole, amp_without_dipole),
         amp    |-> [self_amp EXCEPT !.value[1] = amp_without_dipole]]

\* CMB.remove_dipole: the new self.dipole and self.amp
CMB_remove_dipole(self_amp, g) ==
    LET amp_without_dipole == hp_remove_dipole(self_amp.value[1], g)
    IN  [dipole |-> Minus(self_amp.value[1], amp_without_dipole),
         amp    |-> [self_amp EXCEPT !.value[1] = amp_without_dipole]]

IntensityRows == [Rings -> {Frac(v, 1) : v \in 0..MaxAmp}]
PolarizationRows == {[r \in Rings |-> Frac(0, 1)],
                     <<Frac(1, 1), Frac(0, 1), Frac(2, 1)>>}

CMBAmps ==
    {[isQuantity |-> TRUE, shape |-> <<Len(v), 12>>, unit |-> "uK", value |-> v] :
        v \in {<<i>> : i \in IntensityRows} \cup
              {<<i, q, u>> : i \in IntensityRows, q \in PolarizationRows,
                             u \in PolarizationRows}}

\* A CMB instance after construction: freq_ref is None, no spectral
\* parameters.  The class is built by cosmoglobe.sky.base._DiffuseComponent,
\* which takes the freq_ref = None that CMB.__init__ passes on; the
\* constructor keeps the caller's array itself, so amp and in_amp name one
\* object for the whole life of the instance.
InitCMB ==
    /\ kind = "CMB"
    /\ in_amp \in CMBAmps
    /\ amp = in_amp
    /\ in_freq_ref = None
    /\ freq_ref = in_freq_ref
    /\ in_params = <<>>
    /\ spectral_parameters = in_params
    /\ catalog = NoCatalog
    /\ pc = "ready"
    /\ err = "none"
    /\ validated = {"amp", "spectral_parameters"}
    /\ attrs = {"amp", "freq_ref", "spectral_parameters"}
    /\ returned = TRUE
    /\ dipole = NoValue
    /\ op = "none"
    /\ gal_cut = 0
    /\ ret = NoValue
    /\ removed = NoValue
    /\ ncalls = 0
    /\ fn = "none"
    /\ fn_args = NoValue
    /\ fn_result = NoValue

\* get_dipole keeping the dipole it fitted as self.dipole
get_dipole_Caching ==
    /\ kind = "CMB" /\ pc = "ready"
    /\ ncalls < MaxCalls
    /\ \E g \in GalCuts :
          /\ gal_cut' = g
          /\ ret' = CMB_get_dipole(amp, attrs, dipole, g)
    /\ dipole' = ret'
    /\ attrs' = attrs \cup {"dipole"}
    /\ op' = "get_dipole"
    /\ ncalls' = ncalls + 1
    /\ UNCHANGED <<amp, freq_ref, spectral_parameters, removed>>
    /\ UNCHANGED <<ctorVars, fnVars>>

get_dipole ==
    /\ kind = "CMB" /\ pc = "ready"
    /\ ncalls < MaxCalls
    /\ \E g \in GalCuts :
          /\ gal_cut' = g
          /\ ret' = CMB_get_dipole(amp, attrs, dipole, g)
    /\ op' = "get_dipole"
    /\ ncalls' = ncalls + 1
    /\ UNCHANGED <<amp, freq_ref, spectral_parameters, attrs, dipole, removed>>
    /\ UNCHANGED <<ctorVars, fnVars>>

remove_dipole ==
    /\ kind = "CMB" /\ pc = "ready"
    /\ ncalls < MaxCalls
    /\ \E g \in GalCuts :
          /\ gal_cut' = g
          /\ dipole' = CMB_remove_dipole(amp, g).dipole
          /\ amp' = CMB_remove_dipole(amp, g).amp
    /\ in_amp' = amp'       \* self.amp[0] = ... writes into the caller's array
    /\ removed' = Minus(amp.value[1], amp'.value[1])
    /\ attrs' = attrs \cup {"dipole"}
    /\ op' = "remove_dipole"
    /\ ncalls' = ncalls + 1
    /\ UNCHANGED <<freq_ref, spectral_parameters, ret>>
    /\ UNCHANGED <<kind, in_freq_ref, in_params, catalog, pc, err, validated,
                   returned, fnVars>>

NextCMB == get_dipole \/ remove_dipole

SpecCMB == InitCMB /\ [][NextCMB]_vars

----------------------------------------------------------------------------
(* Properties of construction, checked under Spec *)

Fields == {"amp", "freq_ref", "spectral_parameters"}
Finished == pc \in {"ready", "raised"}

\* the validators the constructor of a class has to pass
Required(k) ==
    IF k \in PointSourceKinds
    THEN {"freq_ref", "amp", "catalog", "spectral_parameters"}
    ELSE IF k \in LineKinds THEN {"freq_ref", "amp"}
    ELSE {"freq_ref", "amp", "spectral_parameters"}
\* the class constructed is built on the base classes of sky/base_components.py
Bound == kind \notin OldKinds

\* a pixel count the validation layer takes for a HEALPix map: 12*nside^2
HealpixPixelCount(n) == n \in {12 * nside * nside : nside \in 0..n}
\* the same with nside restricted to the powers of two
PowerOfTwoPixelCount(n) ==
    n \in {12 * nside * nside : nside \in {k \in 0..n : IsPowerOfTwo(k)}}

FreqRefRules(f) ==
    /\ f.isQuantity
    /\ f.shape = <<1, 1>> \/ f.shape = <<3, 1>>
    /\ Convertible(f.unit, DEFAULT_FREQ_UNIT, spectral)

DiffuseParameterRules(parameter, S) ==
    /\ parameter.isQuantity
    /\ Len(parameter.shape) >= 2
    /\ parameter.shape[1] = S
    /\ parameter.shape[2] > 1 => HealpixPixelCount(parameter.shape[2])

DiffuseRules ==
    /\ FreqRefRules(in_freq_ref)
    /\ in_amp.isQuantity
    /\ HealpixPixelCount(in_amp.shape[2])
    /\ in_amp.shape[1] = in_freq_ref.shape[1]
    /\ Convertible(in_amp.unit, DEFAULT_OUTPUT_UNIT, brightness_temperature)
    /\ \A i \in 1..Len(in_params) : DiffuseParameterRules(in_params[i], in_amp.shape[1])

\* the rules with a pixel count valid when it is 12*nside^2 for nside a power
\* of two
ParameterRulesAsStated(parameter, S) ==
    /\ parameter.isQuantity
    /\ Len(parameter.shape) >= 2
    /\ parameter.shape[1] = S
    /\ parameter.shape[2] > 1 => PowerOfTwoPixelCount(parameter.shape[2])

RulesAsStated ==
    /\ FreqRefRules(in_freq_ref)
    /\ in_amp.isQuantity
    /\ PowerOfTwoPixelCount(in_amp.shape[2])
    /\ in_amp.shape[1] = in_freq_ref.shape[1]
    /\ Convertible(in_amp.unit, DEFAULT_OUTPUT_UNIT, brightness_temperature)
    /\ \A i \in 1..Len(in_params) : ParameterRulesAsStated(in_params[i], in_amp.shape[1])

\* C1 as stated: construction of a diffuse component succeeds if and only if
\* all the validation rules hold, a valid HEALPix pixel count being
\* 12*nside^2 for nside a power of two: no valid input is rejected and no
\* invalid input is accepted.
C1_Original ==
    (kind \in DiffuseKinds /\ Finished) =>
        /\ returned <=> RulesAsStated
        /\ pc = "raised" <=> ~RulesAsStated

\* C1, amended: construction of a diffuse component succeeds if and only if
\* all the validation rules hold (freq_ref a quantity of shape (1,1) or (3,1)
\* convertible to the frequency unit; amp a quantity with a pixel count N,
\* the leading dimension of freq_ref and a unit convertible to the output
\* unit; every spectral parameter a quantity of rank >= 2 with leading
\* dimension S and, when its second dimension exceeds 1, a pixel count),
\* where a pixel count is any 12*nside^2 for an integer nside >= 0, a power
\* of two or not: no input valid in this sense is rejected and no other
\* input is accepted.
C1_DiffuseSucceedsIffValid ==
    (kind \in DiffuseKinds /\ Finished) =>
        /\ returned <=> DiffuseRules
        /\ pc = "raised" <=> ~DiffuseRules

C1_Witness ==
    /\ kind \in DiffuseKinds /\ returned
    /\ in_amp.shape = <<1, 108>> /\ in_amp.unit = "Jy/sr"
    /\ in_freq_ref.unit = "m"
    /\ Len(in_params) = 2
    /\ in_params[1].shape = <<1, 1>> /\ in_params[2].shape = <<1, 108>>

\* C2: once _validate_freq_ref has run, a freq_ref that is not a quantity has
\* raised TypeError, a quantity of a shape other than (1,1) and (3,1) has
\* raised ValueError (the shape error), a well-shaped quantity not convertible
\* to the frequency unit, directly or through the spectral equivalence, has
\* raised UnitsError, and any other freq_ref has passed.
C2_FreqRefValidation ==
    (Bound /\ pc \notin {"new", "validate_freq_ref"}) =>
        LET f == in_freq_ref
            shaped == f.shape \in {<<1, 1>>, <<3, 1>>}
            failedWith(e) == pc = "raised" /\ err = e /\ validated = {}
        IN  /\ ~f.isQuantity => failedWith("TypeError")
            /\ (f.isQuantity /\ ~shaped) => failedWith("ValueError")
            /\ (f.isQuantity /\ shaped
                  /\ ~Convertible(f.unit, DEFAULT_FREQ_UNIT, spectral))
                 => failedWith("UnitsError")
            /\ (f.isQuantity /\ shaped
                  /\ Convertible(f.unit, DEFAULT_FREQ_UNIT, spectral))
                 => "freq_ref" \in validated

C2_Witness ==
    /\ "freq_ref" \in validated
    /\ in_freq_ref.shape = <<3, 1>>
    /\ in_freq_ref.unit = "m"

\* the state in which DiffuseComponent._validate_amp has run on a quantity
DiffuseAmpChecked ==
    /\ kind \in DiffuseKinds
    /\ "freq_ref" \in validated
    /\ pc # "validate_amp"
    /\ in_amp.isQuantity

\* C3 as stated: an amplitude whose pixel count N is not 12*nside^2 with nside
\* a power of two fails with NsideError (the resolution error); one with such
\* an N whose leading dimension differs from freq_ref's fails with ValueError;
\* one with a valid shape and a unit not convertible to the output unit fails
\* with UnitsError.  Stated for maps that are not empty.
C3_Original ==
    (DiffuseAmpChecked /\ in_amp.shape[1] > 0 /\ in_amp.shape[2] > 0) =>
        LET S == in_amp.shape[1]
            N == in_amp.shape[2]
            failedWith(e) == pc = "raised" /\ err = e /\ "amp" \notin validated
        IN  /\ ~PowerOfTwoPixelCount(N) => failedWith("NsideError")
            /\ (PowerOfTwoPixelCount(N) /\ S # in_freq_ref.shape[1])
                 => failedWith("ValueError")
            /\ (PowerOfTwoPixelCount(N) /\ S = in_freq_ref.shape[1]
                  /\ ~Convertible(in_amp.unit, DEFAULT_OUTPUT_UNIT,
                                  brightness_temperature))
                 => failedWith("UnitsError")

\* C3, amended: an amplitude with an empty leading dimension, or whose pixel
\* count N is not 12*nside^2 for an integer nside >= 0 (a power of two is not
\* required), fails with NsideError; a non-empty amplitude with such an N
\* whose leading dimension differs from freq_ref's fails with ValueError; one
\* with a valid shape and a unit not convertible to the output unit fails
\* with UnitsError.
C3_AmpValidation ==
    DiffuseAmpChecked =>
        LET S == in_amp.shape[1]
            N == in_amp.shape[2]
            failedWith(e) == pc = "raised" /\ err = e /\ "amp" \notin validated
        IN  /\ (S = 0 \/ ~HealpixPixelCount(N)) => failedWith("NsideError")
            /\ (S # 0 /\ HealpixPixelCount(N) /\ S # in_freq_ref.shape[1])
                 => failedWith("ValueError")
            /\ (S # 0 /\ HealpixPixelCount(N) /\ S = in_freq_ref.shape[1]
                  /\ ~Convertible(in_amp.unit, DEFAULT_OUTPUT_UNIT,
                                  brightness_temperature))
                 => failedWith("UnitsError")

C3_Witness ==
    /\ DiffuseAmpChecked
    /\ in_amp.shape = <<1, 108>>
    /\ in_freq_ref.shape = <<3, 1>>
    /\ pc = "raised" /\ err = "ValueError"

\* the state in which DiffuseComponent._validate_spectral_parameters has run
DiffuseParametersChecked ==
    /\ kind \in DiffuseKinds
    /\ "amp" \in validated
    /\ pc # "validate_spectral_parameters"

\* C4 as stated, with the parameters taken in the order they were passed: a
\* parameter of rank < 2 or with a leading dimension other than the
\* amplitude's fails with ValueError (the shape error); one whose second
\* dimension exceeds 1 and is not 12*nside^2 for nside a power of two fails
\* with NsideError (the resolution error); parameters of shape (S,1) always
\* pass.
C4_Original ==
    DiffuseParametersChecked =>
        LET S == in_amp.shape[1]
            P == in_params
            passes(i) == ParameterRulesAsStated(P[i], S)
            first(i) == \A j \in 1..(i - 1) : passes(j)
            failedWith(e) == /\ pc = "raised" /\ err = e
                             /\ "spectral_parameters" \notin validated
        IN  /\ \A i \in 1..Len(P) :
                 (first(i) /\ P[i].isQuantity
                    /\ (Len(P[i].shape) < 2 \/ P[i].shape[1] # S))
                 => failedWith("ValueError")
            /\ \A i \in 1..Len(P) :
                 (first(i) /\ P[i].isQuantity
                    /\ Len(P[i].shape) >= 2 /\ P[i].shape[1] = S
                    /\ P[i].shape[2] > 1 /\ ~PowerOfTwoPixelCount(P[i].shape[2]))
                 => failedWith("NsideError")
            /\ (\A i \in 1..Len(P) : P[i].isQuantity /\ P[i].shape = <<S, 1>>)
                 => "spectral_parameters" \in validated

\* C4, amended: with the parameters taken in the order they were passed, the
\* first quantity of rank < 2 or with a leading dimension other than the
\* amplitude's makes construction fail with ValueError (the shape error); the
\* first one that passes this and whose second dimension exceeds 1 without
\* being 12*nside^2 for an integer nside (a power of two or not) makes it
\* fail with NsideError (the resolution error); parameters of shape (S,1)
\* always pass.
C4_ParameterValidation ==
    DiffuseParametersChecked =>
        LET S == in_amp.shape[1]
            P == in_params
            passes(i) == DiffuseParameterRules(P[i], S)
            first(i) == \A j \in 1..(i - 1) : passes(j)
            failedWith(e) == /\ pc = "raised" /\ err = e
                             /\ "spectral_parameters" \notin validated
        IN  /\ \A i \in 1..Len(P) :
                 (first(i) /\ P[i].isQuantity
                    /\ (Len(P[i].shape) < 2 \/ P[i].shape[1] # S))
                 => failedWith("ValueError")
            /\ \A i \in 1..Len(P) :
                 (first(i) /\ P[i].isQuantity
                    /\ Len(P[i].shape) >= 2 /\ P[i].shape[1] = S
                    /\ P[i].shape[2] > 1 /\ ~HealpixPixelCount(P[i].shape[2]))
                 => failedWith("NsideError")
            /\ (\A i \in 1..Len(P) : P[i].isQuantity /\ P[i].shape = <<S, 1>>)
                 => "spectral_parameters" \in validated

C4_Witness ==
    /\ DiffuseParametersChecked
    /\ Len(in_params) = 2
    /\ in_params[1].shape = <<1, 108>>
    /\ in_params[2].shape = <<1, 13>>
    /\ pc = "raised" /\ err = "NsideError"

\* C5 as stated: in every successfully constructed component, diffuse or
\* point-source, each spectral parameter of shape (S,M) with M > 1 has M equal
\* to the second dimension N of the amplitude.  Stated for amplitudes that are
\* not empty.
C5_MapParametersMatchAmp ==
    (kind \in DiffuseKinds \cup PointSourceKinds /\ returned /\ amp.shape[2] > 0) =>
        \A i \in 1..Len(spectral_parameters) :
            LET shape == spectral_parameters[i].shape
            IN  (Len(shape) >= 2 /\ shape[2] > 1) => shape[2] = amp.shape[2]

PointSourceParameterRules(parameter, S) ==
    /\ parameter.isQuantity
    /\ Len(parameter.shape) >= 2
    /\ parameter.shape[1] = S

PointSourceRules ==
    /\ FreqRefRules(in_freq_ref)
    /\ in_amp.isQuantity
    /\ in_amp.shape[1] = in_freq_ref.shape[1]
    /\ Convertible(PerSr(in_amp.unit), DEFAULT_OUTPUT_UNIT, brightness_temperature)
    /\ catalog = in_amp.shape[2]
    /\ \A i \in 1..Len(in_params) :
          PointSourceParameterRules(in_params[i], in_amp.shape[1])

\* C6: point-source construction succeeds exactly when freq_ref is valid, amp
\* is a quantity with the leading dimension of freq_ref and a unit convertible
\* to the output unit after division by a solid angle, the point count of the
\* catalog equals the second dimension N of amp, and the spectral parameters
\* are quantities of rank >= 2 with leading dimension S.  Nothing is asked of
\* N itself, and a catalog count different from N always fails.
C6_PointSourceConstruction ==
    (kind \in PointSourceKinds /\ Finished) =>
        /\ returned <=> PointSourceRules
        /\ (in_amp.isQuantity /\ catalog # in_amp.shape[2]) => pc = "raised"
        /\ (in_amp.isQuantity /\ in_freq_ref.isQuantity
              /\ in_amp.shape[1] # in_freq_ref.shape[1]) => pc = "raised"

C6_Witness ==
    /\ kind \in PointSourceKinds /\ returned
    /\ in_amp.shape = <<3, 13>>
    /\ ~HealpixPixelCount(in_amp.shape[2])
    /\ catalog = 13
    /\ Len(in_params) = 1

\* an attribute beyond the three fields has been set on the instance
HasDerived == attrs \ Fields # {}

\* C7 as stated: no field of the component is stored before all validation
\* has passed, derived-state setup never runs after a validation failure, and
\* a failed construction returns no component.
C7_Original ==
    /\ (attrs \cap Fields # {}) => validated = Required(kind)
    /\ HasDerived => (err = "none" /\ validated = Required(kind))
    /\ pc = "raised" => ~returned

\* C7, amended: construction stores the three fields, then validates, then
\* performs the derived-state setup.  In the base classes of
\* sky/base_components.py the fields are assigned before any validator runs,
\* and a validation failure raises out of the constructor with the fields of
\* the discarded instance assigned.  The derived-state setup (AME template
\* load, Radio catalog load) runs only after the base constructor has
\* returned, so never after a validation failure, and on a stored amplitude;
\* a constructor returns only after every validator has passed (and, for AME
\* and Radio, with the derived state set up), and a failed construction
\* returns no component.
C7_StoreValidateSetup ==
    /\ pc = "new" => (attrs = {} /\ validated = {})
    /\ (pc # "new" /\ Bound) => Fields \subseteq attrs
    /\ HasDerived =>
          /\ err = "none" /\ validated = Required(kind) /\ pc = "ready"
          /\ Fields \subseteq attrs
    /\ returned =>
          /\ pc = "ready" /\ err = "none" /\ validated = Required(kind)
          /\ Fields \subseteq attrs
          /\ kind \in OldKinds => HasDerived
    /\ pc = "raised" =>
          /\ ~returned /\ ~HasDerived /\ err # "none"
          /\ validated # Required(kind)

C7_Witness ==
    /\ kind = "Diffuse"
    /\ pc = "raised" /\ err = "NsideError"
    /\ validated = {"freq_ref", "amp"}
    /\ Fields \subseteq attrs /\ ~HasDerived /\ ~returned

----------------------------------------------------------------------------
(* Properties of the CMB dipole operations, checked under SpecCMB *)

GetDipoleStep == op' = "get_dipole" /\ ncalls' = ncalls + 1
RemoveDipoleStep == op' = "remove_dipole" /\ ncalls' = ncalls + 1
Zero == [r \in Rings |-> Frac(0, 1)]

\* C8: a get_dipole made once a dipole has been removed returns, for any
\* gal_cut, exactly the cached dipole, which is what the preceding
\* remove_dipole took off the intensity map; it leaves the amplitude and the
\* cache as they were, so repeated calls return the same value.
C8_GetDipoleReturnsCached ==
    [][(GetDipoleStep /\ "dipole" \in attrs) =>
          /\ ret' = dipole
          /\ ret' = removed
          /\ amp' = amp /\ dipole' = dipole /\ attrs' = attrs]_vars

C8_Witness ==
    /\ op = "get_dipole" /\ ncalls = 3
    /\ "dipole" \in attrs
    /\ ret = dipole /\ ret # Zero
    /\ gal_cut = 0
    /\ ret # Minus(amp.value[1], hp_remove_dipole(amp.value[1], gal_cut))

\* C9: remove_dipole subtracts the fitted dipole from the intensity row of the
\* amplitude and caches it: the new amp[0] plus the cached dipole is the old
\* amp[0]; the polarization rows, the shape and unit of amp, freq_ref and the
\* spectral parameters are unchanged.
C9_RemoveDipoleFrame ==
    [][RemoveDipoleStep =>
          /\ "dipole" \in attrs'
          /\ Plus(amp'.value[1], dipole') = amp.value[1]
          /\ amp'.value[1] = hp_remove_dipole(amp.value[1], gal_cut')
          /\ Len(amp'.value) = Len(amp.value)
          /\ \A s \in 2..Len(amp.value) : amp'.value[s] = amp.value[s]
          /\ amp'.shape = amp.shape /\ amp'.unit = amp.unit
          /\ freq_ref' = freq_ref
          /\ spectral_parameters' = spectral_parameters]_vars

C9_Witness ==
    /\ op = "remove_dipole" /\ ncalls = 1
    /\ Len(amp.value) = 3
    /\ dipole # Zero /\ removed = dipole
    /\ in_amp = amp
    /\ amp.value[1] = hp_remove_dipole(Plus(amp.value[1], dipole), gal_cut)
    /\ amp.value[2] # Zero

\* C10 as stated: over any sequence of get_dipole and remove_dipole calls on
\* one instance a dipole is subtracted from the amplitude at most once, and
\* the cached dipole, once set, is never overwritten.
C10_RemovedAtMostOnce ==
    [][("dipole" \in attrs) => (amp' = amp /\ dipole' = dipole)]_vars

----------------------------------------------------------------------------
(* Frequency scaling of the AME component (sky/components.py, class AME).  *)
(*                                                                         *)
(* Frequencies are whole GHz.  A value that need not be whole (a scaled    *)
(* frequency, a template amplitude between two table points, a scaling) is *)
(* an exact fraction <<n, d>> with d > 0.  nu_p is a map: one value per    *)
(* pixel, so that the scaling is an array with one entry per pixel.        *)

MaxTemplateAmp == 2       \* template amplitudes are drawn from 1..MaxTemplateAmp
MaxPix == 2               \* pixels of the nu_p map
MaxFreqStep == 9          \* frequencies are 5, 10, .., 5 * MaxFreqStep GHz
PeakGHz == 30             \* the 30 GHz of peak_scale


np_min(xs) == CHOOSE x \in {xs[i] : i \in DOMAIN xs} : \A i \in DOMAIN xs : x <= xs[i]
np_max(xs) == CHOOSE x \in {xs[i] : i \in DOMAIN xs} : \A i \in DOMAIN xs : x >= xs[i]

\* np.interp(x, xp, fp) for increasing xp: the end values outside the table,
\* fp[j] + slope * (x - xp[j]) on the segment that holds x
np_interp(x, xp, fp) ==
    IF FracLt(x, Frac(xp[1], 1)) THEN Frac(fp[1], 1)
    ELSE IF FracLt(Frac(xp[Len(xp)], 1), x) THEN Frac(fp[Len(fp)], 1)
    ELSE LET j == CHOOSE i \in 1..(Len(xp) - 1) :
                     /\ ~ FracLt(x, Frac(xp[i], 1))
                     /\ ~ FracLt(Frac(xp[i + 1], 1), x)
             dx == xp[j + 1] - xp[j]
         IN  Frac(fp[j] * x[2] * dx + (fp[j + 1] - fp[j]) * (x[1] - xp[j] * x[2]),
                  x[2] * dx)

\* peak_scale = 30*u.GHz / nu_p, per pixel
peak_scale(nu_p) == [p \in DOMAIN nu_p |-> Frac(PeakGHz, nu_p[p])]
\* (f * peak_scale).si.value, per pixel
ScaledFreq(f, nu_p) == [p \in DOMAIN nu_p |-> FracMul(Frac(f, 1), peak_scale(nu_p)[p])]

\* the scalar u.Quantity(0, unit=u.dimensionless_unscaled) of the early return
ScalarZero == [scalar |-> TRUE, value |-> <<Frac(0, 1)>>]

\* AME._get_freq_scaling with the range test left out
AME_get_freq_scaling_NoRangeCheck(spdust2, freq, freq_ref_, nu_p) ==
    LET x == ScaledFreq(freq, nu_p)
        xref == ScaledFreq(freq_ref_, nu_p)
    IN  [scalar |-> FALSE,
         value |-> [p \in DOMAIN nu_p |->
                       FracDiv(np_interp(x[p], spdust2.freq, spdust2.amp),
                               np_interp(xref[p], spdust2.freq, spdust2.amp))]]

AME_get_freq_scaling(spdust2, freq, freq_ref_, nu_p) ==
    LET x == ScaledFreq(freq, nu_p)
        xref == ScaledFreq(freq_ref_, nu_p)
        lo == Frac(np_min(spdust2.freq), 1)
        hi == Frac(np_max(spdust2.freq), 1)
    IN  IF ~ (\A p \in DOMAIN nu_p : FracLt(lo, x[p]) /\ FracLt(x[p], hi))
        THEN ScalarZero
        ELSE [scalar |-> FALSE,
              value |-> [p \in DOMAIN nu_p |->
                            FracDiv(np_interp(x[p], spdust2.freq, spdust2.amp),
                                    np_interp(xref[p], spdust2.freq, spdust2.amp))]]

SeqsOf(S, n) == [1..n -> S]
TemplateFreqs == {<<10, 20>>, <<10, 20, 40>>}
Templates == {[freq |-> f, amp |-> a] :
                 f \in TemplateFreqs, a \in SeqsOf(1..MaxTemplateAmp, 2)
                                            \cup SeqsOf(1..MaxTemplateAmp, 3)}
FreqGrid == {5 * k : k \in 1..MaxFreqStep}
NuPValues == {15, 30, 60}
NuPMaps == UNION {SeqsOf(NuPValues, n) : n \in 1..MaxPix}
AMEArgs == {a \in [spdust2 : Templates, freq : FreqGrid, freq_ref : FreqGrid,
                   nu_p : NuPMaps] : Len(a.spdust2.freq) = Len(a.spdust2.amp)}

\* the component state plays no part in a scaling or chain-context call
NoComponent ==
    /\ kind = "none"
    /\ in_amp = NotAQuantity
    /\ in_freq_ref = NotAQuantity
    /\ in_params = <<>>
    /\ catalog = NoCatalog
    /\ amp = NotAQuantity
    /\ freq_ref = NotAQuantity
    /\ spectral_parameters = <<>>
    /\ pc = "none"
    /\ err = "none"
    /\ validated = {}
    /\ attrs = {}
    /\ returned = FALSE
    /\ dipole = NoValue
    /\ op = "none"
    /\ gal_cut = 0
    /\ ret = NoValue
    /\ removed = NoValue
    /\ ncalls = 0

componentVars == <<ctorVars, cmbVars, amp, freq_ref, spectral_parameters, attrs>>

InitAME ==
    /\ NoComponent
    /\ fn = "none"
    /\ fn_args \in AMEArgs
    /\ fn_result = NoValue

AME_scaling ==
    /\ fn = "none"
    /\ fn' = "AME._get_freq_scaling"
    /\ fn_result' = AME_get_freq_scaling(fn_args.spdust2, fn_args.freq,
                                         fn_args.freq_ref, fn_args.nu_p)
    /\ UNCHANGED <<fn_args, componentVars>>

NextAME == AME_scaling

SpecAME == InitAME /\ [][NextAME]_vars

----------------------------------------------------------------------------
(* Properties of the AME scaling, checked under SpecAME *)

AMEDone == fn = "AME._get_freq_scaling"
Pixels == DOMAIN fn_args.nu_p
\* freq * 30 GHz / nu_p and freq_ref * 30 GHz / nu_p at pixel p
ScaledAt(p) == Frac(fn_args.freq * PeakGHz, fn_args.nu_p[p])
ScaledRefAt(p) == Frac(fn_args.freq_ref * PeakGHz, fn_args.nu_p[p])
TableLo == Frac(np_min(fn_args.spdust2.freq), 1)
TableHi == Frac(np_max(fn_args.spdust2.freq), 1)
OutsideTable(x) == FracLt(x, TableLo) \/ FracLt(TableHi, x)
OnTableEdge(x) == FracEq(x, TableLo) \/ FracEq(x, TableHi)
StrictlyInsideTable(x) == FracLt(TableLo, x) /\ FracLt(x, TableHi)
IsZero(r) == \A i \in DOMAIN r.value : r.value[i][1] = 0

\* C11: whenever the scaled frequency freq * peak_scale of some pixel lies
\* outside the template's frequency range, the scaling returned is exactly 0.
C11_ZeroOutsideRange ==
    (AMEDone /\ \E p \in Pixels : OutsideTable(ScaledAt(p)))
        => (fn_result = ScalarZero /\ IsZero(fn_result))

C11_Witness ==
    /\ AMEDone
    /\ \E p \in Pixels : FracLt(TableHi, ScaledAt(p))
    /\ \E p \in Pixels : FracLt(ScaledAt(p), TableLo)
    /\ IsZero(fn_result)

\* C12: whenever the scaled reference frequency freq_ref * peak_scale lies
\* outside the template's frequency range the scaling is zero, even when
\* freq * peak_scale is inside the range.
C12_ZeroWhenReferenceOutside ==
    (/\ AMEDone
     /\ \E p \in Pixels : OutsideTable(ScaledRefAt(p))
     /\ \A p \in Pixels : StrictlyInsideTable(ScaledAt(p)))
        => IsZero(fn_result)

\* the template between table points i and i+1, as the blend of their
\* amplitudes weighted by the distance of x to the other point
Segments == 1..(Len(fn_args.spdust2.freq) - 1)
OnSegment(x, i) ==
    /\ ~ FracLt(x, Frac(fn_args.spdust2.freq[i], 1))
    /\ ~ FracLt(Frac(fn_args.spdust2.freq[i + 1], 1), x)
Blend(x, i) ==
    LET x0 == fn_args.spdust2.freq[i]
        x1 == fn_args.spdust2.freq[i + 1]
        y0 == fn_args.spdust2.amp[i]
        y1 == fn_args.spdust2.amp[i + 1]
    IN  Frac((x1 * x[2] - x[1]) * y0 + (x[1] - x0 * x[2]) * y1, x[2] * (x1 - x0))

\* C13: for in-range evaluation points, that is when every scaled frequency
\* freq * peak_scale and every scaled reference frequency freq_ref * peak_scale
\* of the call lies in the closed range [min, max] of the template
\* frequencies, the scaling at each pixel is the template linearly
\* interpolated at freq * peak_scale divided by the template linearly
\* interpolated at freq_ref * peak_scale, the interpolated value being the
\* linear blend of the two adjacent table amplitudes.
C13_RatioOfInterpolations ==
    (/\ AMEDone
     /\ \A p \in Pixels : ~ OutsideTable(ScaledAt(p))
     /\ \A p \in Pixels : ~ OutsideTable(ScaledRefAt(p)))
        => /\ ~ fn_result.scalar
           /\ DOMAIN fn_result.value = Pixels
           /\ \A p \in Pixels : \E i, j \in Segments :
                 /\ OnSegment(ScaledAt(p), i)
                 /\ OnSegment(ScaledRefAt(p), j)
                 /\ FracEq(fn_result.value[p],
                           FracDiv(Blend(ScaledAt(p), i), Blend(ScaledRefAt(p), j)))

\* C17: the valid domain is the closed interval [min, max] of the template
\* frequencies: when no scaled frequency is outside it and one of them equals
\* the smallest or the largest template frequency, the scaling is the
\* interpolated ratio, not zero.
C17_ClosedDomain ==
    (/\ AMEDone
     /\ \A p \in Pixels : ~ OutsideTable(ScaledAt(p))
     /\ \E p \in Pixels : OnTableEdge(ScaledAt(p))
     /\ \A p \in Pixels : ~ OutsideTable(ScaledRefAt(p)))
        => /\ ~ IsZero(fn_result)
           /\ \A p \in Pixels :
                 FracEq(fn_result.value[p],
                        FracDiv(np_interp(ScaledAt(p), fn_args.spdust2.freq,
                                          fn_args.spdust2.amp),
                                np_interp(ScaledRefAt(p), fn_args.spdust2.freq,
                                          fn_args.spdust2.amp)))

----------------------------------------------------------------------------
(* Power-law and modified-blackbody scalings (sky/components.py, classes   *)
(* Synchrotron, Dust and Radio).  Frequencies and temperatures are whole   *)
(* numbers, spectral indices are integers, and powers of frequency ratios  *)
(* are exact fractions.  A blackbody radiance is transcendental in its     *)
(* arguments and is kept unevaluated: it is known by the frequency and the *)
(* temperature it was computed from, and the ratio of two radiances is     *)
(* exactly 1 when they are the same number.                                *)

MaxFreq == 3              \* freq and freq_ref are drawn from 1..MaxFreq
MaxIndex == 2             \* beta and specind are drawn from -MaxIndex..MaxIndex
MaxT == 2                 \* T is drawn from 1..MaxT

RECURSIVE IntPow(_, _)
IntPow(b, e) == IF e = 0 THEN 1 ELSE b * IntPow(b, e - 1)
\* a ** e for a fraction a > 0 and an integer e
FracPow(a, e) ==
    IF e >= 0 THEN Frac(IntPow(a[1], e), IntPow(a[2], e))
              ELSE Frac(IntPow(a[2], -e), IntPow(a[1], -e))

\* F.blackbody_emission(freq, T): the Planck radiance of a blackbody of
\* temperature T at frequency freq, a positive finite number for freq > 0
\* and T > 0
blackbody_emission(nu, T) == [nu |-> nu, T |-> T]

\* Synchrotron._get_freq_scaling with the parentheses lost: freq / freq_ref**beta
Synchrotron_get_freq_scaling_Unparenthesised(freq, freq_ref_, beta) ==
    FracDiv(Frac(freq, 1), FracPow(Frac(freq_ref_, 1), beta))

Synchrotron_get_freq_scaling(freq, freq_ref_, beta) ==
    FracPow(Frac(freq, freq_ref_), beta)

\* the result is the fraction (freq/freq_ref)**(beta-2) when the two
\* radiances are one number, and that power times their unevaluated ratio
\* otherwise
Dust_get_freq_scaling(freq, freq_ref_, beta, T) ==
    LET power == FracPow(Frac(freq, freq_ref_), beta - 2)
        emission == blackbody_emission(freq, T)
        emission_ref == blackbody_emission(freq_ref_, T)
    IN  IF emission = emission_ref
        THEN FracMul(power, Frac(1, 1))
        ELSE [power |-> power,
              blackbody_ratio |-> [num |-> emission, den |-> emission_ref]]

Radio_get_freq_scaling(freq, freq_ref_, specind) ==
    FracPow(Frac(freq, freq_ref_), specind - 2)

ScalingFreqs == 1..MaxFreq
SpectralIndices == (-MaxIndex)..MaxIndex
Temperatures == 1..MaxT
\* T is an argument of the Dust scaling only
ScalingArgs ==
    {a \in [component : {"Synchrotron", "Dust", "Radio"}, freq : ScalingFreqs,
            freq_ref : ScalingFreqs, index : SpectralIndices, T : Temperatures] :
        a.component # "Dust" => a.T = 1}

InitScaling ==
    /\ NoComponent
    /\ fn = "none"
    /\ fn_args \in ScalingArgs
    /\ fn_result = NoValue

Synchrotron_scaling ==
    /\ fn = "none" /\ fn_args.component = "Synchrotron"
    /\ fn' = "Synchrotron._get_freq_scaling"
    /\ fn_result' = Synchrotron_get_freq_scaling(fn_args.freq, fn_args.freq_ref,
                                                 fn_args.index)
    /\ UNCHANGED <<fn_args, componentVars>>

Dust_scaling ==
    /\ fn = "none" /\ fn_args.component = "Dust"
    /\ fn' = "Dust._get_freq_scaling"
    /\ fn_result' = Dust_get_freq_scaling(fn_args.freq, fn_args.freq_ref,
                                          fn_args.index, fn_args.T)
    /\ UNCHANGED <<fn_args, componentVars>>

Radio_scaling ==
    /\ fn = "none" /\ fn_args.component = "Radio"
    /\ fn' = "Radio._get_freq_scaling"
    /\ fn_result' = Radio_get_freq_scaling(fn_args.freq, fn_args.freq_ref,
                                           fn_args.index)
    /\ UNCHANGED <<fn_args, componentVars>>

NextScaling == Synchrotron_scaling \/ Dust_scaling \/ Radio_scaling

SpecScaling == InitScaling /\ [][NextScaling]_vars

ScalingDone == fn \in {"Synchrotron._get_freq_scaling", "Dust._get_freq_scaling",
                       "Radio._get_freq_scaling"}

\* C14: evaluated at freq = freq_ref, the Synchrotron, Radio and Thermal Dust
\* scalings are exactly 1, whatever beta, specind and T > 0 are.
C14_IdentityAtReference ==
    (ScalingDone /\ fn_args.freq = fn_args.freq_ref) => fn_result = <<1, 1>>

C14_Witness ==
    /\ fn = "Dust._get_freq_scaling"
    /\ fn_args.freq = fn_args.freq_ref /\ fn_args.freq > 1
    /\ fn_args.index < 0 /\ fn_args.T > 1
    /\ fn_result = <<1, 1>>

----------------------------------------------------------------------------
(* Chain contexts: the processing of the items read from a chain file      *)
(* before they become constructor arguments; sky/_chain_context.py         *)
(* (__call__) and the older h5/context.py (context).                       *)
(*                                                                         *)
(* An array quantity is its unit, its shape and its values in row-major    *)
(* order.  The argument mapping is a function from item names to           *)
(* quantities.  The values of a frequency are exact fractions <<n, d>>, so  *)
(* that a conversion between Hz, MHz and GHz loses nothing.                *)

MaxAmpDim == 3            \* leading dimension of amp in a FreqRefContext call
MaxRows == 2              \* rows of a map handed to MapToScalarContext
MaxCols == 2              \* columns of a map
MHzPerGHz == 1000
HzPerGHz == 1000000000

RECURSIVE Prod(_)
Prod(shape) == IF shape = <<>> THEN 1 ELSE Head(shape) * Prod(Tail(shape))
np_size(q) == Prod(q.shape)
np_ndim(q) == Len(q.shape)
\* q.to("GHz"), called without equivalencies: defined for a frequency and
\* UnitConversionError otherwise
PerGHz(unit) ==
    CASE unit = "Hz"  -> HzPerGHz
      [] unit = "MHz" -> MHzPerGHz
      [] unit = "GHz" -> 1
to_GHz(q) ==
    [q EXCEPT !.unit = "GHz",
              !.data = [i \in DOMAIN q.data |->
                           FracDiv(q.data[i], Frac(PerGHz(q.unit), 1))]]
\* q[0]: the first entry along the leading axis, defined when q has an axis
\* (a scalar quantity raises TypeError)
CanIndex(q) == np_ndim(q) > 0
Index0(q) ==
    [q EXCEPT !.shape = Tail(q.shape),
              !.data = SubSeq(q.data, 1, Prod(Tail(q.shape)))]
\* q.reshape(shape), defined when the sizes agree
CanReshape(q, shape) == np_size(q) = Prod(shape)
reshape(q, shape) == [q EXCEPT !.shape = shape]
\* row i of a two-dimensional quantity, and np.unique of it as a set
Row(q, i) == SubSeq(q.data, (i - 1) * q.shape[2] + 1, i * q.shape[2])
np_unique(xs) == {xs[i] : i \in DOMAIN xs}
TheOne(S) == CHOOSE x \in S : TRUE

Returned(args) == [raised |-> "none", args |-> args]
Raised(e, args) == [raised |-> e, args |-> args]

\* sky/_chain_context.py, FreqRefContext.__call__
FreqRefContext_call(args) ==
    IF "freq_ref" \notin DOMAIN args THEN Returned(args)
    ELSE IF ~Convertible(args["freq_ref"].unit, "GHz", {})
    THEN Raised("UnitConversionError", args)
    ELSE LET f == to_GHz(args["freq_ref"])
             amp_dim == args["amp"].shape[1]
         IN  IF amp_dim = 1
             THEN IF ~CanIndex(f)
                  THEN Raised("TypeError", [args EXCEPT !["freq_ref"] = f])
                  ELSE IF CanReshape(Index0(f), <<1, 1>>)
                  THEN Returned([args EXCEPT !["freq_ref"] =
                                    reshape(Index0(f), <<1, 1>>)])
                  ELSE Raised("ValueError", [args EXCEPT !["freq_ref"] = f])
             ELSE IF amp_dim = 3
             THEN IF CanReshape(f, <<3, 1>>)
                  THEN Returned([args EXCEPT !["freq_ref"] = reshape(f, <<3, 1>>)])
                  ELSE Raised("ValueError", [args EXCEPT !["freq_ref"] = f])
             ELSE Raised("ValueError", [args EXCEPT !["freq_ref"] = f])

\* h5/context.py, FreqRefContext.context
FreqRefContext_context(args) ==
    IF "freq_ref" \notin DOMAIN args THEN Returned(args)
    ELSE IF ~Convertible(args["freq_ref"].unit, "GHz", {})
    THEN Raised("UnitConversionError", args)
    ELSE LET f == to_GHz(args["freq_ref"])
         IN  IF args["amp"].shape[1] # 3
             THEN IF ~CanIndex(f)
                  THEN Raised("TypeError", [args EXCEPT !["freq_ref"] = f])
                  ELSE Returned([args EXCEPT !["freq_ref"] = Index0(f)])
             ELSE Returned([args EXCEPT !["freq_ref"] = f])

\* the body of the loop of MapToScalarContext for one item
all_cols_are_unique(value) ==
    IF np_ndim(value) > 1
    THEN \A i \in 1..value.shape[1] : Cardinality(np_unique(Row(value, i))) = 1
    ELSE Cardinality(np_unique(value.data)) = 1
QuantityOfUniques(value) ==
    IF np_ndim(value) > 1
    THEN [unit |-> value.unit, shape |-> <<value.shape[1], 1>>,
          data |-> [i \in 1..value.shape[1] |-> TheOne(np_unique(Row(value, i)))]]
    ELSE [unit |-> value.unit, shape |-> <<1>>,
          data |-> <<TheOne(np_unique(value.data))>>]

\* MapToScalarContext.__call__ collapsing an item as soon as one row is uniform
MapToScalarContext_call_AnyRow(args) ==
    LET IGNORED_ARGS == {"amp", "freq_ref"}
    IN  Returned([key \in DOMAIN args |->
            IF key \notin IGNORED_ARGS /\ np_size(args[key]) > 1
               /\ np_ndim(args[key]) > 1
               /\ \E i \in 1..args[key].shape[1] :
                     Cardinality(np_unique(Row(args[key], i))) = 1
            THEN QuantityOfUniques(args[key])
            ELSE args[key]])

\* sky/_chain_context.py, MapToScalarContext.__call__
MapToScalarContext_call(args) ==
    LET IGNORED_ARGS == {"amp", "freq_ref"}
    IN  Returned([key \in DOMAIN args |->
            IF key \notin IGNORED_ARGS /\ np_size(args[key]) > 1
               /\ all_cols_are_unique(args[key])
            THEN QuantityOfUniques(args[key])
            ELSE args[key]])

\* h5/context.py, MapToScalarContext.context
MapToScalarContext_context(args) ==
    Returned([key \in DOMAIN args |->
        IF np_size(args[key]) > 1 /\ all_cols_are_unique(args[key])
        THEN QuantityOfUniques(args[key])
        ELSE args[key]])

RECURSIVE Broadcast(_, _)
Broadcast(s, t) ==
    IF s = <<>> THEN t
    ELSE IF t = <<>> THEN s
    ELSE Append(Broadcast(SubSeq(s, 1, Len(s) - 1), SubSeq(t, 1, Len(t) - 1)),
                IF s[Len(s)] = 1 THEN t[Len(t)] ELSE s[Len(s)])

\* Quantity(amp.value, "mJy/sr").to(uK, thermodynamic_temperature(freq)): the
\* values are those of amp read as mJy/sr and converted at freq; the factor
\* is a transcendental function of freq and is kept unevaluated
mJy_sr_to_uK(a, freq) ==
    [unit |-> "uK", shape |-> Broadcast(a.shape, freq.shape),
     data |-> [conversion |-> "thermodynamic_temperature", unit |-> "mJy/sr",
               value |-> a.data, frequency |-> freq]]

\* sky/_chain_context.py, RadioContext.__call__
RadioContext_call(args) ==
    IF "alpha" \notin DOMAIN args THEN Raised("KeyError", args)
    ELSE IF ~CanIndex(args["alpha"]) THEN Raised("TypeError", args)
    ELSE Returned([args EXCEPT !["alpha"] = Index0(args["alpha"])])

\* h5/context.py, RadioContext.context
RadioContext_context(args) ==
    IF "alpha" \notin DOMAIN args THEN Raised("KeyError", args)
    ELSE IF ~CanIndex(args["alpha"]) THEN Raised("TypeError", args)
    ELSE LET indexed == [args EXCEPT !["alpha"] = Index0(args["alpha"])]
         IN  IF "amp" \notin DOMAIN args \/ "freq_ref" \notin DOMAIN args
             THEN Raised("KeyError", indexed)
             ELSE IF ~Convertible(args["freq_ref"].unit, "GHz", spectral)
             THEN Raised("UnitConversionError", indexed)
             ELSE IF ~Broadcastable(args["amp"].shape, args["freq_ref"].shape)
             THEN Raised("ValueError", indexed)
             ELSE Returned([indexed EXCEPT !["amp"] =
                               mJy_sr_to_uK(args["amp"], args["freq_ref"])])

\* arguments of a FreqRefContext call: only the shape of amp is read
AmpShapes == {[unit |-> "uK", shape |-> <<d, n>>, data |-> [i \in 1..(d * n) |-> 0]] :
                 d \in 1..MaxAmpDim, n \in 1..MaxCols}
\* 1 GHz and 1.5 GHz in the unit the chain registers for freq_ref (Hz) and
\* in MHz, 1 GHz and 2 GHz in GHz
FreqValues(unit) ==
    CASE unit = "Hz"  -> {Frac(1000000000, 1), Frac(1500000000, 1)}
      [] unit = "MHz" -> {Frac(1000, 1), Frac(1500, 1)}
      [] unit = "GHz" -> {Frac(1, 1), Frac(2, 1)}
\* one value or one per Stokes parameter; besides, a scalar, a (3, 2) array
\* and a quantity that is not a frequency
FreqRefItems ==
    UNION {{[unit |-> un, shape |-> <<n>>, data |-> d] :
               d \in SeqsOf(FreqValues(un), n)} :
           un \in {"Hz", "MHz", "GHz"}, n \in {1, 3}}
    \cup {[unit |-> "GHz", shape |-> <<>>, data |-> <<Frac(2, 1)>>],
          [unit |-> "GHz", shape |-> <<3, 2>>,
           data |-> [i \in 1..6 |-> Frac(i, 1)]],
          [unit |-> "uK", shape |-> <<3>>, data |-> [i \in 1..3 |-> Frac(1, 1)]]}
ScalarBeta == [unit |-> "", shape |-> <<1, 1>>, data |-> <<0>>]
FreqRefArgs == {[amp |-> a, beta |-> ScalarBeta] : a \in AmpShapes}
               \cup {[amp |-> a, beta |-> ScalarBeta, freq_ref |-> f] :
                        a \in AmpShapes, f \in FreqRefItems}

\* arguments of a MapToScalarContext call: maps of two values with up to
\* `rows` rows; amp is an intensity-only map
MapValues == {0, 1}
Maps(unit, rows) == UNION {{[unit |-> unit, shape |-> <<r, c>>, data |-> d] :
                               d \in SeqsOf(MapValues, r * c)} :
                           r \in 1..rows, c \in 1..MaxCols}
ReshapedFreqRefs ==
    {[unit |-> "GHz", shape |-> <<3>>, data |-> [i \in 1..3 |-> Frac(1, 1)]],
     [unit |-> "GHz", shape |-> <<3, 1>>,
      data |-> <<Frac(1, 1), Frac(2, 1), Frac(2, 1)>>]}
MapArgs == {[amp |-> a, beta |-> b] : a \in Maps("uK", 1), b \in Maps("", MaxRows)}
           \cup {[amp |-> a, beta |-> b, freq_ref |-> f] :
                    a \in Maps("uK", 1), b \in Maps("", MaxRows),
                    f \in ReshapedFreqRefs}

\* arguments of a RadioContext call: amp is one row of source amplitudes in
\* mJy, alpha (the chain's specind) a scalar, a vector or a map, freq_ref one
\* frequency, one per Stokes parameter, or a quantity that is not a frequency
RadioAlphas ==
    {[unit |-> "", shape |-> <<>>, data |-> <<1>>],
     [unit |-> "", shape |-> <<2>>, data |-> <<0, 1>>]}
    \cup {[unit |-> "", shape |-> <<r, c>>, data |-> [i \in 1..(r * c) |-> i % 2]] :
             r \in 1..MaxRows, c \in 1..MaxCols}
RadioFreqRefs ==
    {[unit |-> "GHz", shape |-> <<1, 1>>, data |-> <<Frac(1, 1)>>],
     [unit |-> "Hz", shape |-> <<1>>, data |-> <<Frac(1000000000, 1)>>],
     [unit |-> "Hz", shape |-> <<3>>,
      data |-> [i \in 1..3 |-> Frac(1000000000, 1)]],
     [unit |-> "uK", shape |-> <<1, 1>>, data |-> <<Frac(1, 1)>>]}
RadioArgs ==
    {[amp |-> a] : a \in Maps("mJy", 1)}
    \cup {[amp |-> a, alpha |-> al] : a \in Maps("mJy", 1), al \in RadioAlphas}
    \cup {[alpha |-> al, freq_ref |-> f] : al \in RadioAlphas, f \in RadioFreqRefs}
    \cup {[amp |-> a, alpha |-> al, freq_ref |-> f] :
             a \in Maps("mJy", 1), al \in RadioAlphas, f \in RadioFreqRefs}

ContextCalls ==
    {[impl |-> i, context |-> "FreqRefContext", args |-> a] :
        i \in {"sky", "h5"}, a \in FreqRefArgs}
    \cup {[impl |-> i, context |-> "RadioContext", args |-> a] :
             i \in {"sky", "h5"}, a \in RadioArgs}
    \cup {[impl |-> i, context |-> "MapToScalarContext", args |-> a] :
             i \in {"sky", "h5"}, a \in MapArgs}

InitContext ==
    /\ NoComponent
    /\ fn = "none"
    /\ fn_args \in ContextCalls
    /\ fn_result = NoValue

Apply(impl, context, name, result) ==
    /\ fn = "none"
    /\ fn_args.impl = impl /\ fn_args.context = context
    /\ fn' = name
    /\ fn_result' = result
    /\ UNCHANGED <<fn_args, componentVars>>

sky_FreqRefContext ==
    Apply("sky", "FreqRefContext", "sky.FreqRefContext.__call__",
          FreqRefContext_call(fn_args.args))
h5_FreqRefContext ==
    Apply("h5", "FreqRefContext", "h5.FreqRefContext.context",
          FreqRefContext_context(fn_args.args))
sky_MapToScalarContext ==
    Apply("sky", "MapToScalarContext", "sky.MapToScalarContext.__call__",
          MapToScalarContext_call(fn_args.args))
h5_MapToScalarContext ==
    Apply("h5", "MapToScalarContext", "h5.MapToScalarContext.context",
          MapToScalarContext_context(fn_args.args))

sky_RadioContext ==
    Apply("sky", "RadioContext", "sky.RadioContext.__call__",
          RadioContext_call(fn_args.args))
h5_RadioContext ==
    Apply("h5", "RadioContext", "h5.RadioContext.context",
          RadioContext_context(fn_args.args))

NextContext ==
    \/ sky_FreqRefContext
    \/ h5_FreqRefContext
    \/ sky_RadioContext
    \/ h5_RadioContext
    \/ sky_MapToScalarContext
    \/ h5_MapToScalarContext

SpecContext == InitContext /\ [][NextContext]_vars

----------------------------------------------------------------------------
(* Properties of the chain contexts, checked under SpecContext *)

FreqRefDone == fn \in {"sky.FreqRefContext.__call__", "h5.FreqRefContext.context"}
MapToScalarDone == fn \in {"sky.MapToScalarContext.__call__",
                           "h5.MapToScalarContext.context"}
HasFreqRef == "freq_ref" \in DOMAIN fn_args.args
AmpDim == fn_args.args["amp"].shape[1]

\* C15: when the mapping contains freq_ref (a frequency, one value per Stokes
\* parameter, as the chain stores it), freq_ref is reshaped to (1,1) if amp's leading
\* dimension is 1 and to (3,1) if it is 3, and a shape error is raised for any
\* other leading dimension; without freq_ref the mapping is returned unchanged.
C15_FreqRefReshape ==
    FreqRefDone =>
        /\ ~ HasFreqRef =>
              (fn_result.raised = "none" /\ fn_result.args = fn_args.args)
        /\ (HasFreqRef /\ fn_args.args["freq_ref"].shape = <<3>>
               /\ PhysicalType(fn_args.args["freq_ref"].unit) = "frequency") =>
              /\ AmpDim = 1 => /\ fn_result.raised = "none"
                               /\ fn_result.args["freq_ref"].shape = <<1, 1>>
              /\ AmpDim = 3 => /\ fn_result.raised = "none"
                               /\ fn_result.args["freq_ref"].shape = <<3, 1>>
              /\ AmpDim \notin {1, 3} => fn_result.raised = "ValueError"

\* a full-shaped field: two-dimensional with more than one column
FullShaped(q) == Len(q.shape) = 2 /\ q.shape[2] > 1
Entry(q, i, j) == q.data[(i - 1) * q.shape[2] + j]
RowUniform(q, i) == \A j \in 1..q.shape[2] : Entry(q, i, j) = Entry(q, i, 1)
EveryRowUniform(q) == \A i \in 1..q.shape[1] : RowUniform(q, i)
\* the (S,1) quantity holding the per-row value, in the unit of q
PerRowValues(q) ==
    [unit |-> q.unit, shape |-> <<q.shape[1], 1>>,
     data |-> [i \in 1..q.shape[1] |-> Entry(q, i, 1)]]
CollapsedIffUniform(key) ==
    LET q == fn_args.args[key]
    IN  FullShaped(q) =>
           fn_result.args[key] = (IF EveryRowUniform(q) THEN PerRowValues(q) ELSE q)

\* C16 as stated: every full-shaped field of the mapping, amp and freq_ref
\* included, is replaced by the (S,1) per-row quantity exactly when each of its
\* rows is uniform, and is left unchanged otherwise.
C16_Original ==
    MapToScalarDone =>
        /\ fn_result.raised = "none"
        /\ DOMAIN fn_result.args = DOMAIN fn_args.args
        /\ \A key \in DOMAIN fn_args.args : CollapsedIffUniform(key)

\* C16: every full-shaped field other than amp and freq_ref is replaced by the
\* (S,1) quantity holding the per-row value, in the field's unit, exactly when
\* each of its rows is uniform, and is left unchanged when some row is not;
\* sky/_chain_context.py never changes amp and freq_ref, while h5/context.py
\* treats them like every other field.
C16_MapToScalar ==
    MapToScalarDone =>
        /\ fn_result.raised = "none"
        /\ DOMAIN fn_result.args = DOMAIN fn_args.args
        /\ \A key \in DOMAIN fn_args.args \ {"amp", "freq_ref"} :
              CollapsedIffUniform(key)
        /\ \A key \in DOMAIN fn_args.args \cap {"amp", "freq_ref"} :
              IF fn_args.impl = "sky"
              THEN fn_result.args[key] = fn_args.args[key]
              ELSE CollapsedIffUniform(key)

C16_Witness ==
    /\ fn = "sky.MapToScalarContext.__call__"
    /\ fn_args.args["beta"].shape = <<2, 2>>
    /\ fn_args.args["beta"].data = <<0, 0, 1, 1>>
    /\ fn_result.args["beta"] = [unit |-> "", shape |-> <<2, 1>>, data |-> <<0, 1>>]
    /\ FullShaped(fn_args.args["amp"]) /\ EveryRowUniform(fn_args.args["amp"])
    /\ fn_result.args["amp"] = fn_args.args["amp"]

----------------------------------------------------------------------------
(* The CMB query, checked under SpecCMB *)

\* C18: get_dipole called while no dipole has been removed is a pure query.
\* It leaves every row of amp, freq_ref and the spectral parameters unchanged
\* and does not create self.dipole, and it returns the dipole fitted to the
\* current amp[0] with the gal_cut of this call; so as long as no
\* remove_dipole has run the instance is as it was after construction.
C18_GetDipoleIsPureQuery ==
    /\ []("dipole" \notin attrs =>
             /\ amp = in_amp /\ dipole = NoValue /\ removed = NoValue
             /\ attrs = {"amp", "freq_ref", "spectral_parameters"})
    /\ [][("dipole" \notin attrs') => (amp' = amp /\ in_amp' = in_amp)]_vars
    /\ [][(GetDipoleStep /\ "dipole" \notin attrs) =>
             /\ amp' = amp /\ attrs' = attrs /\ dipole' = dipole
             /\ freq_ref' = freq_ref
             /\ spectral_parameters' = spectral_parameters
             /\ ret' = Minus(amp.value[1], hp_remove_dipole(amp.value[1], gal_cut'))]_vars

C18_Witness ==
    /\ op = "get_dipole" /\ ncalls = 3
    /\ "dipole" \notin attrs
    /\ amp = in_amp /\ Len(amp.value) = 3
    /\ gal_cut = 30
    /\ ret # Zero
    /\ ret = Minus(amp.value[1], hp_remove_dipole(amp.value[1], 30))
    /\ ret # Minus(amp.value[1], hp_remove_dipole(amp.value[1], 0))
====
